---- MODULE Spec2Model ----
(***************************************************************************)
(* Model of the HRAM back-test prototypes:                                 *)
(*   src/hram_advanced_sim.py  (friction simulator, two-phase execution)   *)
(*   src/hram_simulation.py    (frictionless simulator, atomic swap)       *)
(*                                                                         *)
(* The floats of the code are modelled as exact rationals <<num, den>>     *)
(* (den > 0, lowest terms) plus the values NaN, +inf, -inf and the two     *)
(* zeros +0.0 = <<0, 1>> and -0.0 = <<0, -1>>, so that sums, products and  *)
(* quotients are computed as the code computes them, up to floating        *)
(* rounding. The inputs are chosen so that no comparison of the code is    *)
(* decided by that rounding. Inside the weight engine a value also carries *)
(* its type, numpy.float64 or Python float: a division of Python floats by *)
(* zero raises ZeroDivisionError where numpy returns inf or nan.           *)
(* Names prefixed s_ belong to hram_simulation.py.                         *)
(***************************************************************************)
EXTENDS Integers, Sequences, FiniteSets, TLC

\* ------------------------------------------------------------------ bounds
\* number of rows of the price table (len(dates)); the loop runs StartIdx..NumDates-1
NumDates == 63

\* ------------------------------------------------------- float arithmetic
NaN == <<0, 0>>

\* float('inf') and float('-inf')
PosInf == <<1, 0>>

NegInf == <<-1, 0>>

\* -0.0
NegZero == <<0, -1>>

IsNaN(x) == x[2] = 0 /\ x[1] = 0

IsInf(x) == x[2] = 0 /\ x[1] # 0

\* x == 0.0 (either zero)
IsZero(x) == x[1] = 0 /\ x[2] # 0

Sgn(n) == IF n > 0 THEN 1 ELSE IF n < 0 THEN -1 ELSE 0

\* the sign bit of a float other than nan, as 1 or -1
SignOf(x) == IF x[1] # 0 THEN Sgn(x[1]) ELSE x[2]

\* the zero with the given sign
Zero(sign) == <<0, sign>>

RECURSIVE GCD(_, _)
GCD(a, b) == IF b = 0 THEN a ELSE GCD(b, a % b)

IAbs(n) == IF n < 0 THEN -n ELSE n

\* the float with value n/d; n/0 is nan for n = 0 and an infinity otherwise
Q(n, d) ==
    IF d = 0 THEN <<Sgn(n), 0>>
    ELSE LET g == GCD(IAbs(n), IAbs(d))
             s == IF d < 0 THEN -1 ELSE 1
         IN  <<(s * n) \div g, (s * d) \div g>>

R(n) == <<n, 1>>

\* x + y; inf + (-inf) is nan; a sum of zeros is -0.0 only when both are;
\* an exact cancellation gives +0.0
RAdd(x, y) ==
    IF IsNaN(x) \/ IsNaN(y) THEN NaN
    ELSE IF IsInf(x) /\ IsInf(y) THEN (IF x = y THEN x ELSE NaN)
    ELSE IF IsInf(x) THEN x
    ELSE IF IsInf(y) THEN y
    ELSE IF IsZero(x) /\ IsZero(y) THEN (IF x = y THEN x ELSE R(0))
    ELSE IF IsZero(x) THEN y
    ELSE IF IsZero(y) THEN x
    ELSE LET g == GCD(x[2], y[2])
         IN  Q(x[1] * (y[2] \div g) + y[1] * (x[2] \div g), (x[2] \div g) * y[2])

RNeg(x) == IF IsZero(x) THEN Zero(-x[2]) ELSE <<-x[1], x[2]>>

\* x - y
RSub(x, y) == RAdd(x, RNeg(y))

\* x * y; inf * 0 is nan; a zero product carries the product of the signs
RMul(x, y) ==
    IF IsNaN(x) \/ IsNaN(y) THEN NaN
    ELSE IF IsInf(x) \/ IsInf(y) THEN <<Sgn(x[1]) * Sgn(y[1]), 0>>
    ELSE IF IsZero(x) \/ IsZero(y) THEN Zero(SignOf(x) * SignOf(y))
    ELSE LET g1 == GCD(IAbs(x[1]), y[2])
             g2 == GCD(IAbs(y[1]), x[2])
         IN  Q((x[1] \div g1) * (y[1] \div g2), (x[2] \div g2) * (y[2] \div g1))

\* x / y on numpy float64: 0/0 and inf/inf are nan, x/0 is an infinity and
\* x/inf a zero, each with the product of the signs of x and y
RDiv(x, y) ==
    IF IsNaN(x) \/ IsNaN(y) THEN NaN
    ELSE IF IsInf(y) THEN (IF IsInf(x) THEN NaN ELSE Zero(SignOf(x) * SignOf(y)))
    ELSE IF IsZero(y) THEN (IF IsZero(x) THEN NaN ELSE <<SignOf(x) * SignOf(y), 0>>)
    ELSE IF IsInf(x) THEN <<SignOf(x) * SignOf(y), 0>>
    ELSE IF IsZero(x) THEN Zero(SignOf(x) * SignOf(y))
    ELSE RMul(x, Q(y[2], y[1]))

\* n1/d1 < n2/d2 for d1, d2 > 0, by integer parts and remainders
RECURSIVE FracLt(_, _, _, _)
FracLt(n1, d1, n2, d2) ==
    LET q1 == n1 \div d1
        q2 == n2 \div d2
        r1 == n1 % d1
        r2 == n2 % d2
    IN  IF q1 # q2 THEN q1 < q2
        ELSE IF r2 = 0 THEN FALSE
        ELSE IF r1 = 0 THEN TRUE
        ELSE FracLt(d2, r2, d1, r1)

\* x < y, x > y, x >= y: every comparison with NaN is False, -inf is below
\* and +inf above every other value, the two zeros compare equal
RLt(x, y) ==
    /\ ~IsNaN(x)
    /\ ~IsNaN(y)
    /\ IF IsInf(x) \/ IsInf(y) THEN x # y /\ (x = NegInf \/ y = PosInf)
       ELSE FracLt(x[1], IAbs(x[2]), y[1], IAbs(y[2]))

RGt(x, y) == RLt(y, x)

RGe(x, y) == ~IsNaN(x) /\ ~IsNaN(y) /\ ~RLt(x, y)

RAbs(x) == <<IAbs(x[1]), IAbs(x[2])>>

\* Python's builtin min(a, b) / max(a, b): the first argument is kept unless
\* the second compares strictly smaller / larger
PyMin(a, b) == IF RLt(b, a) THEN b ELSE a

PyMax(a, b) == IF RGt(b, a) THEN b ELSE a

\* ------------------------------------------------------------------ assets
ASSETS == <<"USDT", "PAXG", "BTC", "ETH", "SOL">>

N == Len(ASSETS)

Idx == 1..N

\* sum(v[a] for a in ASSETS), a left fold from 0
RECURSIVE SumTo(_, _)
SumTo(v, k) == IF k = 0 THEN R(0) ELSE RAdd(SumTo(v, k - 1), v[k])

Sum(v) == SumTo(v, N)

\* max(v[a] for a in ASSETS), Python's max over the generator
RECURSIVE MaxTo(_, _)
MaxTo(v, k) == IF k = 1 THEN v[1] ELSE PyMax(MaxTo(v, k - 1), v[k])

\* ----------------------------------------------------------- configuration
\* CONFIG of the two files; the shared keys have the same values in both.
\* initial_capital, base_fee and base_slippage are drawn from the sets below.
CONFIG(capital, fee, slip) ==
    [vol_window |-> 30, mom_window |-> 50, corr_window |-> 60,
     min_weight |-> Q(5, 100), max_weight |-> Q(40, 100),
     rebal_threshold_normal |-> Q(5, 100),
     rebal_threshold_emergency |-> Q(10, 100),
     initial_capital |-> capital, base_fee |-> fee, base_slippage |-> slip]

StartIdx == 60

IMax(a, b) == IF a >= b THEN a ELSE b

\* ---------------------------------------------------------- weight engine
lookback(c) == IMax(IMax(c.vol_window, c.mom_window), c.corr_window)

EqualWeights == [k \in Idx |-> RDiv(R(1), R(N))]

\* w = {k: v/sum(weights_raw.values())}
Normalize(w) == LET total == Sum(w) IN [k \in Idx |-> RDiv(w[k], total)]

\* what a call returns when float division by zero is raised inside it
ZeroDivisionError == <<>>

\* a dict of weights inside the engine: per key <<value, is_python>>, the
\* second component telling a Python float (TRUE) from a numpy.float64
AsNumpy(v) == [k \in Idx |-> <<v[k], FALSE>>]

Vals(w) == [k \in Idx |-> w[k][1]]

\* sum(w.values()) and every v / total are Python floats when all values are
AllPython(w) == \A k \in Idx : w[k][2]

\* {k: v/total for k, v in w.items()}: Python floats raise on a zero
\* divisor, a numpy operand makes the quotient a numpy.float64
DivAll(w) ==
    LET total == Sum(Vals(w))
        py == AllPython(w)
    IN  IF py /\ IsZero(total) THEN ZeroDivisionError
        ELSE [k \in Idx |-> <<RDiv(w[k][1], total), py>>]

\* max(min_weight, min(max_weight, x)): the CONFIG values are Python floats
Clamp(c, x) ==
    LET inner == IF RLt(x[1], c.max_weight) THEN x ELSE <<c.max_weight, TRUE>>
    IN  IF RGt(inner[1], c.min_weight) THEN inner ELSE <<c.min_weight, TRUE>>

\* variant of ClampPass: the cap at max_weight left out
ClampPass_NoCap(c, w) ==
    IF w = ZeroDivisionError THEN w
    ELSE LET d == DivAll(w)
         IN  IF d = ZeroDivisionError THEN d ELSE [k \in Idx |->
                     IF RGt(d[k][1], c.min_weight) THEN d[k] ELSE <<c.min_weight, TRUE>>]

\* one pass of the clamp loop
ClampPass(c, w) ==
    IF w = ZeroDivisionError THEN w
    ELSE LET d == DivAll(w)
         IN  IF d = ZeroDivisionError THEN d ELSE [k \in Idx |-> Clamp(c, d[k])]

\* variant of FinalNormalize: the last renormalization left out
FinalNormalize_Skipped(w) == IF w = ZeroDivisionError THEN w ELSE Vals(w)

FinalNormalize(w) ==
    IF w = ZeroDivisionError THEN w
    ELSE LET d == DivAll(w)
         IN  IF d = ZeroDivisionError THEN d ELSE Vals(d)

\* len(prices[:current_date]): label slicing includes the row of current_date
HistLen(idx) == idx + 1

\* variant of ColdStart: <= for <
ColdStart_Inclusive(c, idx) == HistLen(idx) <= lookback(c)

ColdStart(c, idx) == HistLen(idx) < lookback(c)

\* hram_advanced_sim.calculate_hram_weights, from the raw scores of the date
calculate_hram_weights(c, idx, raw) ==
    IF ColdStart(c, idx) THEN EqualWeights
    ELSE FinalNormalize(ClampPass(c, ClampPass(c, ClampPass(c, AsNumpy(Normalize(raw))))))

\* hram_simulation: each pass renormalizes, then clamps in place
s_ClampPass(c, w) ==
    IF w = ZeroDivisionError THEN w
    ELSE LET weights_norm == DivAll(w)
         IN  IF weights_norm = ZeroDivisionError THEN weights_norm
             ELSE [k \in Idx |-> Clamp(c, weights_norm[k])]

s_calculate_hram_weights(c, idx, raw) ==
    IF HistLen(idx) < lookback(c) THEN EqualWeights
    ELSE LET weights_norm == AsNumpy(Normalize(raw))
             clamped == s_ClampPass(c, s_ClampPass(c, s_ClampPass(c, weights_norm)))
         IN  FinalNormalize(clamped)


\* ------------------------------------------------------------------- state
VARIABLES
    pc,               \* position in run_simulation
    cfg,              \* CONFIG
    prices,           \* rows of the price table from StartIdx up to the current day
    weights_raw,      \* raw scores of the current date (product of the four factors)
    i,                \* loop index (row of the price table)
    cash, holdings, fees_paid, history, bench_hist, b_shares, last_rebal,
    current_slippage, port_val, target_w, max_drift, days_since, trigger,
    leg,              \* position of the inner `for a in ASSETS` loop
    s_cash, s_holdings, s_portfolio_history, s_bnh_history, s_bnh_shares,
    s_last_rebalance, s_target_weights, s_is_emergency, s_is_normal,
    vols, mom, avg_corr,   \* window statistics the factors are computed from
    s_weights_raw          \* raw scores as hram_simulation computes them

vars == <<pc, cfg, prices, weights_raw, i, cash, holdings, fees_paid, history,
          bench_hist, b_shares, last_rebal, current_slippage, port_val, target_w,
          max_drift, days_since, trigger, leg, s_cash, s_holdings,
          s_portfolio_history, s_bnh_history, s_bnh_shares, s_last_rebalance,
          s_target_weights, s_is_emergency, s_is_normal,
          vols, mom, avg_corr, s_weights_raw>>

factorVars == <<vols, mom, avg_corr, s_weights_raw>>

advVars == <<cash, holdings, fees_paid, history, bench_hist, b_shares, last_rebal,
             current_slippage, port_val, target_w, max_drift, days_since, trigger, leg>>

simVars == <<s_cash, s_holdings, s_portfolio_history, s_bnh_history, s_bnh_shares,
             s_last_rebalance, s_target_weights, s_is_emergency, s_is_normal>>

\* a name that has not been assigned yet
Unset == [k \in Idx |-> NaN]

Zeros == [k \in Idx |-> R(0)]

\* the factor computation has not run
FactorsUnset ==
    /\ vols = Unset /\ mom = Unset /\ avg_corr = Unset /\ s_weights_raw = Unset

\* -------------------------------------------------------------- inputs
Row(a, b, c, d, e) == <<R(a), R(b), R(c), R(d), R(e)>>

\* rows of the price table (positive prices)
PriceRows == {Row(1, 1, 4, 4, 4), Row(1, 1, 2, 2, 2), Row(1, 1, 4, 4, 2)}

\* raw scores a date can have
RawRows == {Row(2, 2, 2, 1, 1), Row(3, 2, 1, 1, 1)}

Capitals == {R(1024)}

\* (base_fee, base_slippage)
FrictionRates == {<<R(0), R(0)>>, <<Q(1, 4), Q(1, 4)>>}

Configs == {CONFIG(cap, f[1], f[2]) : cap \in Capitals, f \in FrictionRates}

\* ------------------------------------------------------------ valuation
\* sum(holdings[a] * curr_px[a] for a in ASSETS) + cash
Value(h, px, c) == RAdd(Sum([k \in Idx |-> RMul(h[k], px[k])]), c)

\* {a: (holdings[a]*curr_px[a])/port_val}
CurrentWeights(h, px, pv) == [k \in Idx |-> RDiv(RMul(h[k], px[k]), pv)]

\* max(abs(curr_w[a] - target_w[a]) for a in ASSETS)
MaxDrift(cw, tw) == MaxTo([k \in Idx |-> RAbs(RSub(cw[k], tw[k]))], N)

\* hram_simulation: max_drift = 0; if drift > max_drift: max_drift = drift
RECURSIVE s_MaxDriftTo(_, _, _)
s_MaxDriftTo(cw, tw, k) ==
    IF k = 0 THEN R(0)
    ELSE LET m == s_MaxDriftTo(cw, tw, k - 1)
             drift == RAbs(RSub(cw[k], tw[k]))
         IN  IF RGt(drift, m) THEN drift ELSE m

\* variant of Trigger: the emergency clause dropped
Trigger_NoEmergency(c, drift, since) ==
    RGt(drift, c.rebal_threshold_normal) /\ since >= 1

\* the rebalance decision
Trigger(c, drift, since) ==
    RGt(drift, c.rebal_threshold_emergency)
        \/ (RGt(drift, c.rebal_threshold_normal) /\ since >= 1)

s_IsEmergency(c, drift) == RGt(drift, c.rebal_threshold_emergency)

s_IsNormal(c, drift, since) == RGt(drift, c.rebal_threshold_normal) /\ since >= 1

\* variants of s_Fire: the rebalance block not guarded; guarded by is_emergency alone
s_Fire_Always(is_emergency, is_normal) == TRUE

s_Fire_EmergencyOnly(is_emergency, is_normal) == is_emergency

\* if is_emergency or is_normal
s_Fire(is_emergency, is_normal) == is_emergency \/ is_normal

\* variant of Friction: the friction credited instead of charged
Friction_Rebate(c, slip, amt) == RNeg(RMul(amt, RAdd(c.base_fee, slip)))

\* variant of Friction: every leg charged the base slippage, whatever the day's
Friction_BaseSlippage(c, slip, amt) == RMul(amt, RAdd(c.base_fee, c.base_slippage))

\* friction of a leg of the given notional
Friction(c, slip, amt) == RMul(amt, RAdd(c.base_fee, slip))

\* current_slippage = base_slippage * (2.0 if is_high_vol else 1.0)
Slippage(c, is_high_vol) == RMul(c.base_slippage, IF is_high_vol THEN R(2) ELSE R(1))

\* variants of BuyAmt: the cap by the available cash dropped; max for min
BuyAmt_NoCashCap(c, needed) == needed

BuyAmt_Max(c, needed) == PyMax(c, needed)

\* buy_amt = min(cash, needed)
BuyAmt(c, needed) == PyMin(c, needed)

\* variant of BenchShares: the benchmark charged like the strategy's initial buy
BenchShares_Charged(c, px) ==
    [k \in Idx |->
        RDiv(RMul(RDiv(c.initial_capital, R(N)),
                  RSub(R(1), RAdd(c.base_fee, c.base_slippage))), px[k])]

\* (CONFIG['initial_capital']/len(ASSETS))/b0_prices[a]
BenchShares(c, px) == [k \in Idx |-> RDiv(RDiv(c.initial_capital, R(N)), px[k])]

\* --------------------------------------------------------- initial state
\* the state before run_simulation's first statement has an effect: the price
\* table exists (its StartIdx row and that date's raw scores are inputs), the
\* ledgers hold the whole capital in cash
LedgerInit ==
    /\ cash = cfg.initial_capital
    /\ holdings = Zeros
    /\ fees_paid = R(0)
    /\ history = <<>>
    /\ bench_hist = <<>>
    /\ b_shares = Unset
    /\ last_rebal = StartIdx
    /\ current_slippage = NaN
    /\ port_val = NaN
    /\ target_w = Unset
    /\ trigger = FALSE
    /\ leg = 0
    /\ s_cash = cfg.initial_capital
    /\ s_holdings = Zeros
    /\ s_portfolio_history = <<>>
    /\ s_bnh_history = <<>>
    /\ s_bnh_shares = Unset
    /\ s_last_rebalance = StartIdx
    /\ s_target_weights = Unset
    /\ s_is_emergency = FALSE
    /\ s_is_normal = FALSE

InitWith(configs) ==
    /\ pc = "start"
    /\ cfg \in configs
    /\ \E px \in PriceRows : prices = <<px>>
    /\ weights_raw \in RawRows
    /\ i = StartIdx
    /\ max_drift = NaN
    /\ days_since = 0
    /\ LedgerInit
    /\ FactorsUnset

Init == InitWith(Configs)

\* ------------------------------------------- hram_simulation.run_simulation
\* Initial Allocation: no friction; a raise inside calculate_hram_weights
\* leaves the ledger as it was set up
s_InitialAllocation ==
    LET weights == s_calculate_hram_weights(cfg, StartIdx, weights_raw)
    IN  /\ IF weights = ZeroDivisionError
           THEN UNCHANGED <<s_holdings, s_cash, s_last_rebalance>>
           ELSE /\ s_holdings' = [k \in Idx |-> RDiv(RMul(s_cash, weights[k]), prices[1][k])]
                /\ s_cash' = R(0)
                /\ s_last_rebalance' = StartIdx
        /\ UNCHANGED <<s_portfolio_history, s_bnh_history, s_bnh_shares, s_target_weights,
                       s_is_emergency, s_is_normal>>

\* the atomic swap: holdings[asset] = target_val / current_prices[asset]
s_AtomicSwap(pv, tw, px) == [k \in Idx |-> RDiv(RMul(pv, tw[k]), px[k])]

\* one iteration of the back-test loop on row i with prices px; a raise
\* inside calculate_hram_weights comes after the two values are recorded
s_Day(px, raw) ==
    LET s_port_val == Value(s_holdings, px, s_cash)
        shares == IF i = StartIdx THEN BenchShares(cfg, px) ELSE s_bnh_shares
        bnh_val == Value(shares, px, R(0))
        current_weights == CurrentWeights(s_holdings, px, s_port_val)
        target_weights == s_calculate_hram_weights(cfg, i, raw)
        s_max_drift == s_MaxDriftTo(current_weights, target_weights, N)
        s_days_since == i - s_last_rebalance
        is_emergency == s_IsEmergency(cfg, s_max_drift)
        is_normal == s_IsNormal(cfg, s_max_drift, s_days_since)
        fire == s_Fire(is_emergency, is_normal)
    IN  /\ s_portfolio_history' = Append(s_portfolio_history, s_port_val)
        /\ s_bnh_shares' = shares
        /\ s_bnh_history' = Append(s_bnh_history, bnh_val)
        /\ IF target_weights = ZeroDivisionError
           THEN UNCHANGED <<s_is_emergency, s_is_normal, s_target_weights, s_holdings,
                            s_last_rebalance>>
           ELSE /\ s_is_emergency' = is_emergency
                /\ s_is_normal' = is_normal
                /\ s_target_weights' = target_weights
                /\ s_holdings' = IF fire THEN s_AtomicSwap(s_port_val, target_weights, px)
                                 ELSE s_holdings
                /\ s_last_rebalance' = IF fire THEN i ELSE s_last_rebalance
        /\ UNCHANGED s_cash

\* ----------------------------------------- hram_advanced_sim.run_simulation
\* variant of InitCost: the slippage forgotten
InitCost_FeeOnly(c, alloc) == RMul(alloc, c.base_fee)

\* cost of an initial leg: alloc * (base_fee + base_slippage)
InitCost(c, alloc) == RMul(alloc, RAdd(c.base_fee, c.base_slippage))

\* Portfolio Init, Initial Execution, Benchmark Init; a raise inside
\* calculate_hram_weights ends the run before the first leg
InitialExecution ==
    /\ pc = "start"
    /\ UNCHANGED factorVars
    /\ LET weights == calculate_hram_weights(cfg, StartIdx, weights_raw)
           alloc == [k \in Idx |-> RMul(cash, weights[k])]
           cost == [k \in Idx |-> InitCost(cfg, alloc[k])]
       IN  IF weights = ZeroDivisionError
           THEN /\ UNCHANGED <<fees_paid, holdings, cash, b_shares, last_rebal>>
                /\ pc' = "raised"
           ELSE /\ fees_paid' = RAdd(fees_paid, Sum(cost))
                /\ holdings' = [k \in Idx |-> RDiv(RSub(alloc[k], cost[k]), prices[1][k])]
                /\ cash' = R(0)
                /\ b_shares' = BenchShares(cfg, prices[1])
                /\ last_rebal' = StartIdx
                /\ pc' = "loop"
    /\ s_InitialAllocation
    /\ UNCHANGED <<cfg, prices, weights_raw, i, history, bench_hist, current_slippage,
                   port_val, target_w, max_drift, days_since, trigger, leg>>

\* variant of NextIdx: a row skipped
NextIdx_Skip(idx) == idx + 2

\* for i in range(start_idx, len(dates)): the index after idx
NextIdx(idx) == idx + 1

\* variant of DaysSince: the two dates subtracted the other way round
DaysSince_Reversed(idx, last) == last - idx

\* days_since = (date - last_rebal).days, dates being consecutive rows
DaysSince(idx, last) == idx - last

\* top of a loop iteration: valuations, dynamic slippage, rebalance decision;
\* a raise inside calculate_hram_weights ends the run after the valuations
DayBegin ==
    /\ pc = "loop"
    /\ UNCHANGED factorVars
    /\ i < NumDates
    /\ \E px \in (IF i = StartIdx THEN {prices[1]} ELSE PriceRows),
          raw \in (IF i = StartIdx THEN {weights_raw} ELSE RawRows),
          is_high_vol \in BOOLEAN :
          LET pv == Value(holdings, px, cash)
              bench_val == Value(b_shares, px, R(0))
              curr_w == CurrentWeights(holdings, px, pv)
              tw == calculate_hram_weights(cfg, i, raw)
              md == MaxDrift(curr_w, tw)
              ds == DaysSince(i, last_rebal)
              fire == Trigger(cfg, md, ds)
          IN  /\ prices' = IF i = StartIdx THEN prices ELSE Append(prices, px)
              /\ weights_raw' = raw
              /\ port_val' = pv
              /\ history' = Append(history, pv)
              /\ bench_hist' = Append(bench_hist, bench_val)
              /\ current_slippage' = Slippage(cfg, is_high_vol)
              /\ IF tw = ZeroDivisionError
                 THEN /\ UNCHANGED <<target_w, max_drift, days_since, trigger, leg, i>>
                      /\ pc' = "raised"
                 ELSE /\ target_w' = tw
                      /\ max_drift' = md
                      /\ days_since' = ds
                      /\ trigger' = fire
                      /\ pc' = IF fire THEN "sell" ELSE "loop"
                      /\ leg' = IF fire THEN 1 ELSE leg
                      /\ i' = IF fire THEN i ELSE NextIdx(i)
              /\ s_Day(px, raw)
    /\ UNCHANGED <<cfg, cash, holdings, fees_paid, b_shares, last_rebal>>

curr_px == prices[i - StartIdx + 1]

\* variant of NetCash: the proceeds credited without deducting the friction
NetCash_Gross(sell_amt, friction) == sell_amt

\* net_cash = sell_amt - friction
NetCash(sell_amt, friction) == RSub(sell_amt, friction)

\* actual_invest = buy_amt - friction
ActualInvest(buy_amt, friction) == RSub(buy_amt, friction)

\* one iteration of the "Sell Overweight" loop
SellLeg ==
    /\ pc = "sell"
    /\ UNCHANGED factorVars
    /\ LET target_amt == RMul(port_val, target_w[leg])
           curr_amt == RMul(holdings[leg], curr_px[leg])
           sell_amt == RSub(curr_amt, target_amt)
           friction == Friction(cfg, current_slippage, sell_amt)
           net_cash == NetCash(sell_amt, friction)
       IN  IF RGt(curr_amt, target_amt)
           THEN /\ fees_paid' = RAdd(fees_paid, friction)
                /\ holdings' = [holdings EXCEPT ![leg] = RSub(@, RDiv(sell_amt, curr_px[leg]))]
                /\ cash' = RAdd(cash, net_cash)
           ELSE UNCHANGED <<fees_paid, holdings, cash>>
    /\ leg' = IF leg = N THEN 1 ELSE leg + 1
    /\ pc' = IF leg = N THEN "buy" ELSE "sell"
    /\ UNCHANGED <<cfg, prices, weights_raw, i, history, bench_hist, b_shares, last_rebal,
                   current_slippage, port_val, target_w, max_drift, days_since, trigger>>
    /\ UNCHANGED simVars

\* one iteration of the "Buy Underweight" loop; after the last one
\* last_rebal = date and the day is over
BuyLeg ==
    /\ pc = "buy"
    /\ UNCHANGED factorVars
    /\ LET target_amt == RMul(port_val, target_w[leg])
           curr_amt == RMul(holdings[leg], curr_px[leg])
           needed == RSub(target_amt, curr_amt)
           buy_amt == BuyAmt(cash, needed)
           friction == Friction(cfg, current_slippage, buy_amt)
           actual_invest == ActualInvest(buy_amt, friction)
       IN  IF RLt(curr_amt, target_amt) /\ RGt(cash, R(0))
           THEN /\ fees_paid' = RAdd(fees_paid, friction)
                /\ holdings' = [holdings EXCEPT ![leg] = RAdd(@, RDiv(actual_invest, curr_px[leg]))]
                /\ cash' = RSub(cash, buy_amt)
           ELSE UNCHANGED <<fees_paid, holdings, cash>>
    /\ leg' = IF leg = N THEN 0 ELSE leg + 1
    /\ pc' = IF leg = N THEN "loop" ELSE "buy"
    /\ last_rebal' = IF leg = N THEN i ELSE last_rebal
    /\ i' = IF leg = N THEN NextIdx(i) ELSE i
    /\ UNCHANGED <<cfg, prices, weights_raw, history, bench_hist, b_shares,
                   current_slippage, port_val, target_w, max_drift, days_since, trigger>>
    /\ UNCHANGED simVars

\* range(start_idx, len(dates)) is exhausted
LoopExit ==
    /\ pc = "loop"
    /\ UNCHANGED factorVars
    /\ i >= NumDates
    /\ pc' = "done"
    /\ UNCHANGED <<cfg, prices, weights_raw, i>>
    /\ UNCHANGED advVars
    /\ UNCHANGED simVars

Next == InitialExecution \/ DayBegin \/ SellLeg \/ BuyLeg \/ LoopExit

Spec == Init /\ [][Next]_vars

\* ------------------------------------------- the rebalance decision alone
\* largest drift of the grid, in percent
MaxDriftPct == 15

\* largest number of days since the last rebalance
MaxSince == 3

DriftGrid == {Q(k, 100) : k \in 0..MaxDriftPct}

InitTrigger ==
    /\ pc = "trigger"
    /\ cfg \in {CONFIG(cap, R(0), R(0)) : cap \in Capitals}
    /\ prices = <<>>
    /\ weights_raw = Unset
    /\ i = StartIdx
    /\ max_drift \in DriftGrid
    /\ days_since \in 0..MaxSince
    /\ LedgerInit
    /\ FactorsUnset

\* the decision of both files on the drift and the days since the last rebalance
EvalTrigger ==
    /\ pc = "trigger"
    /\ UNCHANGED factorVars
    /\ trigger' = Trigger(cfg, max_drift, days_since)
    /\ s_is_emergency' = s_IsEmergency(cfg, max_drift)
    /\ s_is_normal' = s_IsNormal(cfg, max_drift, days_since)
    /\ pc' = "trigger_done"
    /\ UNCHANGED <<cfg, prices, weights_raw, i, cash, holdings, fees_paid, history,
                   bench_hist, b_shares, last_rebal, current_slippage, port_val, target_w,
                   max_drift, days_since, leg, s_cash, s_holdings, s_portfolio_history,
                   s_bnh_history, s_bnh_shares, s_last_rebalance, s_target_weights>>

SpecTrigger == InitTrigger /\ [][EvalTrigger]_vars

\* ---------------------------------------------- the weight engine alone
\* how many rows before StartIdx the evaluation date can lie
MaxShort == 3

HistIdxs == (StartIdx - MaxShort)..StartIdx

\* raw scores: positive products of the four factors, or NaN where an asset's
\* price is constant over the window (its correlations are undefined)
RawDomain ==
    [Idx -> {R(1), R(3), R(24)}]
        \cup {Unset, [Row(1, 1, 1, 1, 1) EXCEPT ![2] = NaN]}

InitWeights ==
    /\ pc = "weights"
    /\ cfg \in {CONFIG(cap, R(0), R(0)) : cap \in Capitals}
    /\ prices = <<>>
    /\ weights_raw \in RawDomain
    /\ i \in HistIdxs
    /\ max_drift = NaN
    /\ days_since = 0
    /\ LedgerInit
    /\ FactorsUnset

\* calculate_hram_weights(prices, dates[i]) of both files
EvalWeights ==
    /\ pc = "weights"
    /\ UNCHANGED factorVars
    /\ LET w == calculate_hram_weights(cfg, i, weights_raw)
           s_w == s_calculate_hram_weights(cfg, i, weights_raw)
       IN  /\ target_w' = IF w = ZeroDivisionError THEN target_w ELSE w
           /\ s_target_weights' = IF s_w = ZeroDivisionError THEN s_target_weights ELSE s_w
           /\ pc' = IF w = ZeroDivisionError \/ s_w = ZeroDivisionError
                     THEN "raised" ELSE "weights_done"
    /\ UNCHANGED <<cfg, prices, weights_raw, i, cash, holdings, fees_paid, history,
                   bench_hist, b_shares, last_rebal, current_slippage, port_val,
                   max_drift, days_since, trigger, leg, s_cash, s_holdings,
                   s_portfolio_history, s_bnh_history, s_bnh_shares, s_last_rebalance,
                   s_is_emergency, s_is_normal>>

SpecWeights == InitWeights /\ [][EvalWeights]_vars

\* ------------------------------------ the factors behind the raw scores
\* annualized volatilities of near-constant price windows: 4e-6 and 9e-6
VolDomain == [Idx -> {Q(4, 1000000), Q(9, 1000000)}]

\* last price / mean price - 1 of each asset
MomDomain == {Zeros, <<Q(1, 3), R(0), Q(-1, 3), R(0), R(0)>>}

\* mean of each asset's column of the correlation matrix (the diagonal is 1)
CorrDomain == {[k \in Idx |-> Q(1, 5)], <<Q(1, 2), Q(1, 2), Q(1, 5), Q(1, 5), Q(1, 5)>>}

\* f_risk = 1 / (vols[asset] + 1e-6)
f_risk(vol) == RDiv(R(1), RAdd(vol, Q(1, 1000000)))

\* f_mom = max(0.1, 1 + (mom[asset] * 0.3))
f_mom(m) == PyMax(Q(1, 10), RAdd(R(1), RMul(m, Q(3, 10))))

\* f_corr = 1 - (corr[asset].mean() * 0.2)
f_corr(ac) == RSub(R(1), RMul(ac, Q(2, 10)))

\* f_liq = 1.1 if asset in ['BTC','ETH','USDT'] else 1.0
f_liq(k) == IF ASSETS[k] \in {"BTC", "ETH", "USDT"} THEN Q(11, 10) ELSE R(1)

\* weights_raw[asset] = f_risk * f_mom * f_corr * f_liq
RawScores(v, m, ac) ==
    [k \in Idx |-> RMul(RMul(RMul(f_risk(v[k]), f_mom(m[k])), f_corr(ac[k])), f_liq(k))]

\* hram_simulation: f_risk = 1 / (vols[asset] + 0.00001)
s_f_risk(vol) == RDiv(R(1), RAdd(vol, Q(1, 100000)))

\* hram_simulation: f_mom = 1 + momentum_raw * 0.3; if f_mom < 0.1: f_mom = 0.1
s_f_mom(m) ==
    LET x == RAdd(R(1), RMul(m, Q(3, 10)))
    IN  IF RLt(x, Q(1, 10)) THEN Q(1, 10) ELSE x

\* hram_simulation: raw_score = f_risk * f_mom * f_corr * f_liq
s_RawScores(v, m, ac) ==
    [k \in Idx |-> RMul(RMul(RMul(s_f_risk(v[k]), s_f_mom(m[k])), f_corr(ac[k])), f_liq(k))]

InitFactors ==
    /\ pc = "factors"
    /\ cfg \in {CONFIG(cap, R(0), R(0)) : cap \in Capitals}
    /\ prices = <<>>
    /\ weights_raw = Unset
    /\ s_weights_raw = Unset
    /\ vols \in VolDomain
    /\ mom \in MomDomain
    /\ avg_corr \in CorrDomain
    /\ i \in HistIdxs
    /\ max_drift = NaN
    /\ days_since = 0
    /\ LedgerInit

\* calculate_hram_weights of both files from the statistics of one window;
\* on the cold-start path the functions return before weights_raw is bound
EvalFactors ==
    /\ pc = "factors"
    /\ weights_raw' = IF ColdStart(cfg, i) THEN weights_raw
                       ELSE RawScores(vols, mom, avg_corr)
    /\ s_weights_raw' = IF HistLen(i) < lookback(cfg) THEN s_weights_raw
                         ELSE s_RawScores(vols, mom, avg_corr)
    /\ LET w == calculate_hram_weights(cfg, i, weights_raw')
           s_w == s_calculate_hram_weights(cfg, i, s_weights_raw')
       IN  /\ target_w' = IF w = ZeroDivisionError THEN target_w ELSE w
           /\ s_target_weights' = IF s_w = ZeroDivisionError THEN s_target_weights ELSE s_w
           /\ pc' = IF w = ZeroDivisionError \/ s_w = ZeroDivisionError
                     THEN "raised" ELSE "factors_done"
    /\ UNCHANGED <<cfg, prices, i, cash, holdings, fees_paid, history,
                   bench_hist, b_shares, last_rebal, current_slippage, port_val,
                   max_drift, days_since, trigger, leg, s_cash, s_holdings,
                   s_portfolio_history, s_bnh_history, s_bnh_shares, s_last_rebalance,
                   s_is_emergency, s_is_normal, vols, mom, avg_corr>>

SpecFactors == InitFactors /\ [][EvalFactors]_vars

\* ------------------------------------- the run under other configurations
\* CONFIG with one key changed, and with both weight bounds 0.0
BadConfigs ==
    LET base == CONFIG(R(1024), R(0), R(0))
    IN  {[base EXCEPT !.initial_capital = R(-1024)],
         [base EXCEPT !.vol_window = -30],
         [base EXCEPT !.rebal_threshold_normal = Q(-1, 20)],
         [base EXCEPT !.min_weight = Q(1, 4)],
         [base EXCEPT !.max_weight = Q(1, 8)],
         [base EXCEPT !.min_weight = R(0), !.max_weight = R(0)]}

InitConfig == InitWith(BadConfigs)

SpecConfig == InitConfig /\ [][Next]_vars

\* ================================================================ claims
\* the friction charged by the initial execution: capital * (base_fee + base_slippage)
InitialFees == RMul(cfg.initial_capital, RAdd(cfg.base_fee, cfg.base_slippage))

HasFriction == RGt(RAdd(cfg.base_fee, cfg.base_slippage), R(0))

\* the day that just ended was a trigger day
AfterTriggerDay == pc \in {"loop", "done"} /\ trigger /\ last_rebal = i - 1

\* C1: in the friction simulator cash and every holding are non-negative in
\* every state of the run: before and after the initial execution, after every
\* sell leg and buy leg, and at the end of every day.
C1_NonNegativeLedger ==
    /\ RGe(cash, R(0))
    /\ \A k \in Idx : RGe(holdings[k], R(0))

\* a trigger day under friction has been executed, leg by leg
C1_Witness ==
    /\ AfterTriggerDay
    /\ HasFriction
    /\ RGt(fees_paid, InitialFees)

\* C2: the trigger fires on every drift above the emergency threshold whatever
\* days_since is (0 included), on a drift above the normal threshold and not
\* above the emergency one exactly when days_since >= 1, and never on a drift
\* not above the normal threshold; in both files.
C2_TriggerRule ==
    pc = "trigger_done" =>
        LET fired == trigger
            s_fired == s_is_emergency \/ s_is_normal
            emergency == RGt(max_drift, Q(10, 100))
            normal == RGt(max_drift, Q(5, 100))
        IN  /\ emergency => (fired /\ s_fired)
            /\ ~normal => (~fired /\ ~s_fired)
            /\ (normal /\ ~emergency) =>
                   /\ fired <=> (days_since >= 1)
                   /\ s_fired <=> (days_since >= 1)

\* an emergency drift on the day of the last rebalance fires
C2_Witness ==
    /\ pc = "trigger_done"
    /\ days_since = 0
    /\ RGt(max_drift, Q(10, 100))
    /\ trigger
    /\ s_is_emergency

\* C3: fees_paid never decreases from one step to the next, and a loop
\* iteration that does not trigger (one step from the top of the loop to the
\* top of the next iteration) leaves fees_paid unchanged.
C3_FeesMonotone ==
    [][/\ RGe(fees_paid', fees_paid)
       /\ (pc = "loop" /\ pc' # "sell") => fees_paid' = fees_paid]_vars

\* a day without trigger has passed after a trigger day that charged friction
C3_Witness ==
    /\ pc = "done"
    /\ ~trigger
    /\ last_rebal > StartIdx
    /\ HasFriction
    /\ RGt(fees_paid, InitialFees)

\* the value of capital/N bought of every asset at the first row's prices,
\* at the prices of row k of the table
EqualWeightValue(k) ==
    Sum([a \in Idx |->
            RDiv(RMul(RDiv(cfg.initial_capital, R(N)), prices[k][a]), prices[1][a])])

\* C4: the benchmark holds capital/N worth of every asset at the first day's
\* prices, bought without friction; its shares never change afterwards, every
\* recorded benchmark value is the value of exactly those shares (the first
\* one is the initial capital), in both files.
C4_BenchmarkFrozen ==
    /\ pc # "start" =>
           \A a \in Idx : b_shares[a] = RDiv(RDiv(cfg.initial_capital, R(N)), prices[1][a])
    /\ \A k \in 1..Len(bench_hist) : bench_hist[k] = EqualWeightValue(k)
    /\ Len(bench_hist) >= 1 => bench_hist[1] = cfg.initial_capital
    /\ Len(s_bnh_history) >= 1 =>
           \A a \in Idx : s_bnh_shares[a] = RDiv(RDiv(cfg.initial_capital, R(N)), prices[1][a])
    /\ \A k \in 1..Len(s_bnh_history) : s_bnh_history[k] = EqualWeightValue(k)

\* the strategy has traded with friction on a later day and the run is over
C4_Witness ==
    /\ pc = "done"
    /\ last_rebal > StartIdx
    /\ HasFriction
    /\ Len(bench_hist) = NumDates - StartIdx
    /\ prices[Len(prices)] # prices[1]

\* C5: the weights returned by calculate_hram_weights sum to 1, on the
\* cold-start path and on the normalize / clamp / renormalize path, in both files.
C5_WeightsSumToOne ==
    pc = "weights_done" =>
        /\ Sum(target_w) = R(1)
        /\ Sum(s_target_weights) = R(1)

\* enough history, and the clamp changed a weight
C5_Witness ==
    /\ pc = "weights_done"
    /\ HistLen(i) >= 60
    /\ \E k \in Idx : RGt(RDiv(weights_raw[k], Sum(weights_raw)), Q(40, 100))
    /\ \E k \in Idx : RLt(RDiv(weights_raw[k], Sum(weights_raw)), Q(5, 100))

\* the raw scores, normalized, already lie inside [min_weight, max_weight]
InBox(raw) ==
    \A k \in Idx :
        /\ RGe(RDiv(raw[k], Sum(raw)), Q(5, 100))
        /\ RGe(Q(40, 100), RDiv(raw[k], Sum(raw)))

\* C6: with fewer than lookback = 60 rows of history the weights are exactly
\* 1/N each; with 60 rows or more the result is computed from the raw scores
\* (it is the normalized raw scores whenever these lie inside the box).
C6_ColdStart ==
    pc = "weights_done" =>
        /\ HistLen(i) < 60 =>
               \A k \in Idx : target_w[k] = Q(1, N) /\ s_target_weights[k] = Q(1, N)
        /\ (HistLen(i) >= 60 /\ InBox(weights_raw)) =>
               \A k \in Idx :
                   /\ RMul(target_w[k], Sum(weights_raw)) = weights_raw[k]
                   /\ RMul(s_target_weights[k], Sum(weights_raw)) = weights_raw[k]

\* the cold-start answer for unequal raw scores, one row short of the lookback
C6_Witness ==
    /\ pc = "weights_done"
    /\ HistLen(i) = 59
    /\ weights_raw = Row(3, 3, 1, 1, 1)
    /\ target_w = EqualWeights

\* what section 7 of the specification calls a valid configuration
ValidConfig(c) ==
    /\ c.vol_window >= 0 /\ c.mom_window >= 0 /\ c.corr_window >= 0
    /\ RGt(c.rebal_threshold_normal, R(0))
    /\ RGt(c.rebal_threshold_emergency, R(0))
    /\ RGe(R(1), RMul(c.min_weight, R(N)))
    /\ RGe(RMul(c.max_weight, R(N)), R(1))
    /\ RGe(c.initial_capital, R(0))

\* C7: under an invalid configuration no ledger is initialized, no day is
\* simulated and no value is recorded (the run has not begun, or has ended
\* in an error before the initial allocation).
C7_InvalidConfigRejected ==
    ~ValidConfig(cfg) =>
        /\ pc \in {"start", "error", "raised"}
        /\ holdings = Zeros /\ s_holdings = Zeros
        /\ history = <<>> /\ s_portfolio_history = <<>>

\* C8: right after the initial execution cash = 0, fees_paid =
\* capital * (base_fee + base_slippage), and the holdings are worth
\* capital - fees_paid at the first day's prices.
C8_InitialExecution ==
    (pc = "loop" /\ history = <<>>) =>
        /\ cash = R(0)
        /\ fees_paid = RMul(cfg.initial_capital, RAdd(cfg.base_fee, cfg.base_slippage))
        /\ Value(holdings, prices[1], R(0)) = RSub(cfg.initial_capital, fees_paid)

\* the initial execution has run under friction, from unequal weights
C8_Witness ==
    /\ pc = "loop"
    /\ history = <<>>
    /\ HasFriction
    /\ holdings[1] # holdings[2]
    /\ RGt(fees_paid, R(0))

\* the number of rows the loop has completed
DaysDone == IF pc \in {"sell", "buy"} THEN i - StartIdx + 1 ELSE i - StartIdx

RecordsPerDay ==
    /\ i \in StartIdx..NumDates
    /\ pc # "start" =>
           /\ Len(history) = DaysDone /\ Len(bench_hist) = DaysDone
           /\ Len(s_portfolio_history) = DaysDone /\ Len(s_bnh_history) = DaysDone
           /\ Len(prices) = IF DaysDone = 0 THEN 1 ELSE DaysDone
    /\ pc = "done" =>
           /\ i = NumDates
           /\ Len(history) = NumDates - StartIdx

\* what is left of the run: rows still to process, and within a trigger day
\* the legs still to execute
Remaining ==
    LET rows == NumDates - i
        block == 2 * N + 2
    IN  CASE pc = "start" -> (rows + 1) * block + 2
          [] pc = "loop"  -> rows * block + 1
          [] pc = "sell"  -> (rows - 1) * block + 1 + (2 * N - leg + 1)
          [] pc = "buy"   -> (rows - 1) * block + 1 + (N - leg + 1)
          [] OTHER        -> 0

\* C9: the loop takes the rows in order, one at a time, and records exactly one
\* strategy value and one benchmark value for each; every step brings the run
\* closer to its end (Remaining decreases and is never negative), the run can
\* stop only after the last row, and then each series has NumDates - StartIdx
\* records.
C9_OneRecordPerDay ==
    /\ []RecordsPerDay
    /\ [](Remaining >= 0 /\ (Remaining = 0 <=> pc = "done"))
    /\ [](pc \in {"start", "loop", "done"} \/ (pc \in {"sell", "buy"} /\ leg \in Idx))
    /\ [][/\ i' = i \/ (i' = i + 1 /\ Len(history') = i' - StartIdx)
          /\ Remaining' < Remaining]_vars

\* the run is over and every series is complete
C9_Witness ==
    /\ pc = "done"
    /\ Len(history) = NumDates - StartIdx
    /\ Len(bench_hist) = NumDates - StartIdx
    /\ last_rebal > StartIdx

Frictionless == cfg.base_fee = R(0) /\ cfg.base_slippage = R(0)

\* C10: with fee = slippage = 0 the two simulators have the same ledger at
\* the end of every day, and at the end of a trigger day every holding is
\* port_val * target_w / price and cash is 0 in both.
C10_FrictionlessEquivalence ==
    (Frictionless /\ pc \in {"loop", "done"}) =>
        /\ holdings = s_holdings
        /\ cash = s_cash
        /\ last_rebal = s_last_rebalance
        /\ history = s_portfolio_history
        /\ AfterTriggerDay =>
               /\ cash = R(0)
               /\ \A k \in Idx :
                      holdings[k] = RDiv(RMul(port_val, target_w[k]), prices[Len(prices)][k])

\* two trigger days in a row without friction, the second one with buys
C10_Witness ==
    /\ Frictionless
    /\ pc = "done"
    /\ AfterTriggerDay
    /\ Len(history) >= 3
    /\ s_last_rebalance = NumDates - 1
    /\ holdings # Zeros

\* the step at the top of a loop iteration (it records the day's value)
DayStep == pc = "loop" /\ Len(history') = Len(history) + 1

\* C11: a loop iteration whose trigger is false leaves cash, every holding and
\* the last rebalance date as they were at the start of the day, in both files.
C11_NoTriggerCarriesOver ==
    [][/\ (DayStep /\ ~trigger') =>
              /\ pc' = "loop"
              /\ cash' = cash /\ holdings' = holdings /\ last_rebal' = last_rebal
       /\ (DayStep /\ ~(s_is_emergency' \/ s_is_normal')) =>
              /\ s_cash' = s_cash /\ s_holdings' = s_holdings
              /\ s_last_rebalance' = s_last_rebalance]_vars

\* a later day ended without trigger although the ledger had drifted
C11_Witness ==
    /\ pc \in {"loop", "done"}
    /\ Len(history) >= 2
    /\ ~trigger
    /\ ~(s_is_emergency \/ s_is_normal)
    /\ RGt(max_drift, R(0))
    /\ last_rebal < i - 1

\* C12: the step that ends a trigger day sets the last rebalance date to that
\* day's row, no other step changes it, and at the end of every day it is the
\* row of the latest trigger day (the start row while no day has triggered);
\* in both files, whichever threshold fired.
C12_LastRebalanceDate ==
    /\ [][/\ last_rebal' = IF pc = "buy" /\ pc' = "loop" THEN i ELSE last_rebal
          /\ DayStep =>
                 s_last_rebalance' = IF s_is_emergency' \/ s_is_normal' THEN i
                                     ELSE s_last_rebalance]_vars
    /\ [](pc \in {"loop", "done"} /\ Len(history) >= 1 =>
              /\ trigger => last_rebal = i - 1
              /\ ~trigger => /\ last_rebal >= StartIdx
                              /\ (last_rebal < i - 1 \/ last_rebal = StartIdx))
    /\ [](pc \in {"start", "loop"} /\ history = <<>> => last_rebal = StartIdx)

\* a day triggered by a drift between the two thresholds has just ended
C12_Witness ==
    /\ AfterTriggerDay
    /\ RGt(max_drift, Q(5, 100))
    /\ ~RGt(max_drift, Q(10, 100))
    /\ last_rebal > StartIdx
    /\ s_is_normal /\ ~s_is_emergency
    /\ s_last_rebalance = last_rebal

\* the latest price row: the prices of the day being, or just, executed
day_px == prices[Len(prices)]

\* value of asset k at the day's prices, and its target amount
AmtOf(h, k) == RMul(h[k], day_px[k])

TargetAmt(k) == RMul(port_val, target_w[k])

\* target minus current value of the asset a buy leg is about to evaluate
Shortfall == RSub(TargetAmt(leg), AmtOf(holdings, leg))

\* C13: within an execution the sell loop only sells and is over before the
\* buy loop starts; each buy leg spends min(cash, shortfall) on an underweight
\* asset and nothing otherwise; a leg funded for less than its shortfall
\* empties the cash and the later legs change nothing; after the execution no
\* asset is worth more than port_val * target weight at the day's prices.
C13_SellThenBuyInOrder ==
    /\ [][pc = "sell" =>
              /\ pc' \in {"sell", "buy"}
              /\ \A k \in Idx : RGe(holdings[k], holdings'[k])
              /\ RGe(cash', cash)]_vars
    /\ [][pc = "buy" =>
              /\ pc' \in {"buy", "loop"}
              /\ \A k \in Idx : RGe(holdings'[k], holdings[k])
              /\ \A k \in Idx : k # leg => holdings'[k] = holdings[k]
              /\ RSub(cash, cash') = IF RGt(Shortfall, R(0))
                                     THEN (IF RLt(Shortfall, cash) THEN Shortfall ELSE cash)
                                     ELSE R(0)
              /\ (RGt(Shortfall, R(0)) /\ RLt(RSub(cash, cash'), Shortfall)) => cash' = R(0)
              /\ cash = R(0) => holdings' = holdings /\ cash' = cash]_vars
    /\ [](AfterTriggerDay =>
              \A k \in Idx : ~RGt(AmtOf(holdings, k), TargetAmt(k)))

\* in the buy loop the cash is used up by an earlier underweight asset that
\* is still below target, and the asset now evaluated is underweight too
C13_Witness ==
    /\ pc = "buy"
    /\ HasFriction
    /\ cash = R(0)
    /\ RGt(Shortfall, R(0))
    /\ \E j \in 1..(leg - 1) : RLt(AmtOf(holdings, j), TargetAmt(j))
    /\ \E j \in Idx : AmtOf(holdings, j) = TargetAmt(j) /\ RGt(TargetAmt(j), R(0))

\* C14: every sell leg and every buy leg lowers the value of the ledger at the
\* day's prices (holdings * price + cash) by exactly what it adds to fees_paid,
\* so an execution loses the day's fee increase and nothing else: its value
\* ends below port_val under friction and equal to it without.
C14_FrictionIsPureLoss ==
    /\ [][(pc = "sell" \/ pc = "buy") =>
              /\ Value(holdings', day_px, cash') =
                     RSub(Value(holdings, day_px, cash), RSub(fees_paid', fees_paid))
              /\ day_px' = day_px]_vars
    /\ [](pc = "sell" /\ leg = 1 => Value(holdings, day_px, cash) = port_val)
    /\ [](AfterTriggerDay =>
              IF HasFriction THEN RLt(Value(holdings, day_px, cash), port_val)
              ELSE Value(holdings, day_px, cash) = port_val)

\* a day executed at the base slippage has ended with a loss of value
C14_Witness ==
    /\ AfterTriggerDay
    /\ HasFriction
    /\ current_slippage = cfg.base_slippage
    /\ RLt(Value(holdings, day_px, cash), port_val)
    /\ RGt(fees_paid, InitialFees)

\* notional of the leg a step executes: value sold, or cash spent
LegNotional ==
    IF pc = "sell" THEN RSub(AmtOf(holdings, leg), AmtOf(holdings', leg))
    ELSE RSub(cash, cash')

\* C15: the day's slippage is base_slippage or twice base_slippage, it is set
\* before the first leg and no leg changes it, and every sell or buy leg adds
\* exactly notional * (base_fee + that slippage) to fees_paid.
C15_UniformSlippage ==
    /\ [](history # <<>> =>
              current_slippage \in {cfg.base_slippage, RMul(cfg.base_slippage, R(2))})
    /\ [][(pc = "sell" \/ pc = "buy") =>
              /\ current_slippage' = current_slippage
              /\ RSub(fees_paid', fees_paid) =
                     RMul(LegNotional, RAdd(cfg.base_fee, current_slippage))]_vars

\* a day executed at the doubled slippage has ended, fees having been charged
C15_Witness ==
    /\ AfterTriggerDay
    /\ HasFriction
    /\ current_slippage = RMul(cfg.base_slippage, R(2))
    /\ current_slippage # cfg.base_slippage
    /\ RGt(fees_paid, InitialFees)

\* calculate_hram_weights has returned on the path past the cold start, for
\* raw scores that are all positive
WarmPositive ==
    /\ pc = "weights_done"
    /\ HistLen(i) >= 60
    /\ \A k \in Idx : RGt(weights_raw[k], R(0))

WithinBounds(w) ==
    \A k \in Idx : RGe(w[k], Q(5, 100)) /\ RGe(Q(40, 100), w[k])

\* C16 as stated: with enough history and positive raw scores every returned
\* weight lies in [min_weight, max_weight] = [0.05, 0.40].
C16_Original ==
    WarmPositive => WithinBounds(target_w) /\ WithinBounds(s_target_weights)

\* C16: with enough history and positive raw scores the returned weights are
\* weights clamped into [min_weight, max_weight] divided by their sum: they
\* are positive, none is more than max_weight / min_weight = 8 times another,
\* and they lie in [0.05, 0.40] when the normalized raw scores already do.
C16_ClampedUpToRenormalization ==
    WarmPositive =>
        /\ \A j, k \in Idx :
               /\ RGt(target_w[j], R(0))
               /\ RGe(RMul(R(8), target_w[k]), target_w[j])
               /\ RGt(s_target_weights[j], R(0))
               /\ RGe(RMul(R(8), s_target_weights[k]), s_target_weights[j])
        /\ InBox(weights_raw) =>
               WithinBounds(target_w) /\ WithinBounds(s_target_weights)

\* the final renormalization has pushed a clamped weight above the cap
C16_Witness ==
    /\ WarmPositive
    /\ \E k \in Idx : RGt(target_w[k], Q(40, 100))
    /\ \E k \in Idx : RGt(s_target_weights[k], Q(40, 100))
    /\ \A k \in Idx : RGe(target_w[k], Q(5, 100))

\* C17: for the same window (same statistics, same evaluation date) the
\* calculate_hram_weights of the two files return the same weight vector.
C17_SameWeightEngine ==
    pc = "factors_done" => target_w = s_target_weights

\* what asset k lacks to reach its target amount (0 when it is at or above it)
ShortOf(k) == PyMax(R(0), RSub(TargetAmt(k), AmtOf(holdings, k)))

\* total shortfall of the assets from position `from` on
ShortfallFrom(from) == Sum([k \in Idx |-> IF k >= from THEN ShortOf(k) ELSE R(0)])

\* cash is 0 at the end of every day; the cash the sell loop raised never
\* exceeds the shortfall of the assets still to be evaluated by the buy loop;
\* after the execution the value lost equals the shortfall left unmet
CashSpent ==
    /\ pc \in {"loop", "done"} => cash = R(0)
    /\ pc = "buy" => RGe(ShortfallFrom(leg), cash)
    /\ AfterTriggerDay =>
           /\ ShortfallFrom(1) = RSub(port_val, Value(holdings, day_px, cash))
           /\ HasFriction => RGt(ShortfallFrom(1), R(0))

\* C18 as stated: cash is 0 at the end of every day, and the friction shows up
\* as unmet shortfall of the underweight assets evaluated last only: an asset
\* the buy loop funds for its whole shortfall ends at its target amount.
C18_Original ==
    /\ []CashSpent
    /\ [][(pc = "buy" /\ RGt(Shortfall, R(0)) /\ RSub(cash, cash') = Shortfall) =>
              AmtOf(holdings', leg) = TargetAmt(leg)]_vars

\* C18: cash is 0 at the end of every day, the buy loop spending all the cash
\* the sell loop raised; the friction of the day equals the total unmet
\* shortfall, of which every funded asset carries its own buy friction and the
\* assets evaluated after the cash ran out their whole shortfall.
C18_CashZeroAtDayEnd ==
    /\ []CashSpent
    /\ [][(pc = "buy" /\ RGt(Shortfall, R(0))) =>
              /\ RSub(TargetAmt(leg), AmtOf(holdings', leg)) =
                     RAdd(RSub(Shortfall, RSub(cash, cash')), RSub(fees_paid', fees_paid))
              /\ RSub(fees_paid', fees_paid) =
                     RMul(RSub(cash, cash'), RAdd(cfg.base_fee, current_slippage))
              /\ cash = R(0) => AmtOf(holdings', leg) = AmtOf(holdings, leg)]_vars

\* all cash was spent although two assets are still short of their targets
C18_Witness ==
    /\ AfterTriggerDay
    /\ HasFriction
    /\ cash = R(0)
    /\ \E j, k \in Idx : j < k /\ RGt(ShortOf(j), R(0)) /\ RGt(ShortOf(k), ShortOf(j))
    /\ current_slippage = RMul(cfg.base_slippage, R(2))

\* C19: days_since is 0 on the first simulated day only and at least 1 on
\* every later day, the last rebalance date never being later than the day
\* before; so on every later day the trigger is exactly
\* max_drift > rebal_threshold_normal, in both files.
C19_CooldownNeverBinds ==
    /\ history # <<>> =>
           /\ days_since >= 0
           /\ days_since = 0 <=> Len(history) = 1
           /\ Len(history) >= 2 => (trigger <=> RGt(max_drift, Q(5, 100)))
    /\ (pc = "loop" /\ i > StartIdx) =>
           /\ last_rebal <= i - 1
           /\ s_last_rebalance <= i - 1
    /\ Len(s_portfolio_history) >= 2 => (s_is_emergency => s_is_normal)

\* a later day, two days after the last rebalance, triggered by a drift
\* above the normal threshold
C19_Witness ==
    /\ Len(history) >= 3
    /\ days_since = 2
    /\ trigger
    /\ RGt(max_drift, Q(5, 100))
    /\ pc = "sell"

====
